---- MODULE Spec2Model ----
(***************************************************************************)
(* Model of downloader/sd_openevents_within_radius.py: the Meetup event    *)
(* downloader.  One run of main(): fetch the category list, open           *)
(* events.csv, and for every category and both time-statuses page through  *)
(* /2/open_events with a bounded retry loop, flattening every event into   *)
(* one CSV row.                                                            *)
(*                                                                         *)
(* Text is a sequence of tokens: "," and ";" are tokens of their own,      *)
(* every other token is a comma-free chunk of characters.  Times are in    *)
(* tenths of a second (the rate-limit margin is 0.1 s).  The server is the *)
(* environment: every request draws its outcome from a small set.          *)
(***************************************************************************)
EXTENDS Integers, Sequences, FiniteSets, TLC

(* ------------------------------- bounds -------------------------------- *)

\* Requests one run may issue (categories request included).
MaxRequests == 5

\* Where no history is kept, the sleeps of line 91 one run may take.
MaxSleeps == 3

\* Where no history is kept, offsets above this one are not told apart.
MaxOffset == 2

(* -------------------------- program constants -------------------------- *)

num_request_attempts == 3

\* time.sleep(10) after an HTTP 500, in tenths of a second.
RetryDelay == 100

\* The 0.1 added to X-RateLimit-Reset, in tenths of a second.
RateLimitMargin == 1

\* Exit status of the interpreter when an exception reaches the top level.
TracebackExit == 1

\* The wall clock when the process starts, seconds since the epoch.
Today == 1728000

\* Line 114: datetime.datetime.today() when the process has slept s tenths
\* of a second since it started (lines 91 and 152): the wall clock has
\* moved on by the time slept.  The difference of line 114 is taken from a
\* creation time in whole seconds, so the whole seconds of today decide it.
TodayAt(s) == Today + s \div 10

HeaderRow ==
  <<"group_category", ",", "group_age_days", ",", "group.name", ",",
    "group.id", ",", "lat", ",", "lon", ",", "event.waitlist_count", ",",
    "event.yes_rsvp_count", ",", "event_day_of_week", ",",
    "event_hour_of_day", ",", "event_datetime", ",", "event.name", ",",
    "event.id", ",", "event.status">>

EventStatuses == <<"past", "upcoming">>

(* ------------------------------- text ---------------------------------- *)

\* str.replace(old, new) on tokenised text.
Replace(text, old, new) ==
  [i \in 1..Len(text) |-> IF text[i] = old THEN new ELSE text[i]]

\* unicode(n) for an integer.
UnicodeInt(n) == <<ToString(n)>>

\* unicode(x) for a float given in hundredths: shortest decimal form, at
\* least one digit after the point.
UnicodeFloat(h) ==
  LET a == IF h < 0 THEN 0 - h ELSE h
      sign == IF h < 0 THEN "-" ELSE ""
      frac == a % 100
      digits == IF frac % 10 = 0 THEN ToString(frac \div 10)
                ELSE ToString(frac \div 10) \o ToString(frac % 10)
  IN <<sign \o ToString(a \div 100) \o "." \o digits>>

\* Two-digit zero-padded decimal (%d, %H, %M of strftime).
Pad2(n) == IF n < 10 THEN "0" \o ToString(n) ELSE ToString(n)

RECURSIVE Join(_, _)
\* sep.join(fields)
Join(fields, sep) ==
  IF fields = <<>> THEN <<>>
  ELSE IF Len(fields) = 1 THEN fields[1]
  ELSE fields[1] \o <<sep>> \o Join(Tail(fields), sep)

(* ------------------------------ calendar ------------------------------- *)

DayNames == <<"Monday", "Tuesday", "Wednesday", "Thursday", "Friday",
              "Saturday", "Sunday">>

\* A JSON timestamp is an integer of milliseconds since the epoch that is
\* not bounded by 32 bits.  It is held as whole days since 1970-01-01 00:00
\* UTC, seconds of that day (0..86399) and milliseconds of that second
\* (0..999): the value is (day * 86400 + sec) * 1000 + msec.
Millis(day, sec, msec) == [day |-> day, sec |-> sec, msec |-> msec]

\* long(ms) / 1000: Python 2 integer division, which rounds down: the
\* instant without its milliseconds.
Seconds(ms) == [day |-> ms.day, sec |-> ms.sec]

\* The instant of a number of seconds since the epoch.
Instant(s) == [day |-> s \div 86400, sec |-> s % 86400]

\* An instant, or a local time, comes before another.
Before(a, b) == a.day < b.day \/ (a.day = b.day /\ a.sec < b.sec)

\* The date of a day of a year that begins on 1 March, in its month mp
\* (0 for March, 11 for February).
DateOfMonth(year, doy, mp) ==
  [year |-> year + (IF mp < 10 THEN 0 ELSE 1),
   month |-> IF mp < 10 THEN mp + 3 ELSE mp - 9,
   day |-> doy - (153 * mp + 2) \div 5 + 1]

\* The date of day doy (0..365) of a year that begins on 1 March.
DateOfDay(year, doy) == DateOfMonth(year, doy, (5 * doy + 2) \div 153)

\* The date of day doe of an era of 400 years, in year yoe of the era.
DateOfYear(era, doe, yoe) ==
  DateOfDay(yoe + era * 400,
            doe - (365 * yoe + yoe \div 4 - yoe \div 100))

\* The date of day doe (0..146096) of an era of 400 years.
DateOfEra(era, doe) ==
  DateOfYear(era, doe,
             (doe - doe \div 1460 + doe \div 36524 - doe \div 146096)
                \div 365)

\* Year, month and day of a day number (days since 1970-01-01) in the
\* proleptic Gregorian calendar; the eras begin on 0000-03-01.
CivilDate(days) ==
  DateOfEra((days + 719468) \div 146097, (days + 719468) % 146097)

\* The day number of day doy of year yoe of an era.
DaysOfEra(era, yoe, doy) ==
  era * 146097 + yoe * 365 + yoe \div 4 - yoe \div 100 + doy - 719468

\* The day number of a date in the year y that begins on 1 March.
DaysFromMarch(y, month, day) ==
  DaysOfEra(y \div 400, y % 400,
            (153 * (IF month > 2 THEN month - 3 ELSE month + 9) + 2) \div 5
               + day - 1)

\* The day number of a date of the proleptic Gregorian calendar.
DaysFromCivil(year, month, day) ==
  DaysFromMarch(IF month <= 2 THEN year - 1 ELSE year, month, day)

\* The n-th Sunday from a day on; 1970-01-01 was a Thursday.
SundayFrom(first, n) == first + (6 - ((first + 3) % 7)) + 7 * (n - 1)

\* The day number of the n-th Sunday of a month.
NthSunday(year, month, n) == SundayFrom(DaysFromCivil(year, month, 1), n)

\* America/Los_Angeles as the zone database has it (the zone of TZ, applied
\* by the C library under datetime.fromtimestamp): local mean time until
\* 1883-11-18 20:00 UTC, then Pacific standard time; the periods [from, to)
\* of Pacific daylight, war and peace time until 2006, in seconds since the
\* epoch and in order of time; from 2007 (day 13514) on the rule
\* PST8PDT,M3.2.0,M11.1.0: daylight time from 02:00 local time of the
\* second Sunday of March to 02:00 local time of the first Sunday of
\* November.
LosAngeles ==
  [lmt |-> -28378, lmtUntil |-> [day |-> -31455, sec |-> 72000],
   std |-> -28800, dst |-> -25200,
   tableFrom |-> -24855,
   dstPeriods |-> <<
     <<-1633269600, -1615129200>>, <<-1601820000, -1583679600>>,
     <<-880207200, -765385200>>, <<-687967140, -662655600>>,
     <<-620838000, -608137200>>, <<-589388400, -576082800>>,
     <<-557938800, -544633200>>, <<-526489200, -513183600>>,
     <<-495039600, -481734000>>, <<-463590000, -450284400>>,
     <<-431535600, -418230000>>, <<-400086000, -386780400>>,
     <<-368636400, -355330800>>, <<-337186800, -323881200>>,
     <<-305737200, -292431600>>, <<-273682800, -260982000>>,
     <<-242233200, -226508400>>, <<-210783600, -195058800>>,
     <<-179334000, -163609200>>, <<-147884400, -131554800>>,
     <<-116434800, -100105200>>, <<-84376800, -68655600>>,
     <<-52927200, -37206000>>, <<-21477600, -5756400>>,
     <<9972000, 25693200>>, <<41421600, 57747600>>,
     <<73476000, 89197200>>, <<104925600, 120646800>>,
     <<126698400, 152096400>>, <<162381600, 183546000>>,
     <<199274400, 215600400>>, <<230724000, 247050000>>,
     <<262778400, 278499600>>, <<294228000, 309949200>>,
     <<325677600, 341398800>>, <<357127200, 372848400>>,
     <<388576800, 404902800>>, <<420026400, 436352400>>,
     <<452080800, 467802000>>, <<483530400, 499251600>>,
     <<514980000, 530701200>>, <<544615200, 562150800>>,
     <<576064800, 594205200>>, <<607514400, 625654800>>,
     <<638964000, 657104400>>, <<671018400, 688554000>>,
     <<702468000, 720003600>>, <<733917600, 752058000>>,
     <<765367200, 783507600>>, <<796816800, 814957200>>,
     <<828871200, 846406800>>, <<860320800, 877856400>>,
     <<891770400, 909306000>>, <<923220000, 941360400>>,
     <<954669600, 972810000>>, <<986119200, 1004259600>>,
     <<1018173600, 1035709200>>, <<1049623200, 1067158800>>,
     <<1081072800, 1099213200>>, <<1112522400, 1130662800>>,
     <<1143972000, 1162112400>> >>,
   ruleFrom |-> 13514,
   ruleStart |-> [month |-> 3, sunday |-> 2, at |-> 7200],
   ruleEnd |-> [month |-> 11, sunday |-> 1, at |-> 7200]]

\* The zone a name of the zone database (the value of TZ) stands for.
TimeZone(name) == CASE name = "America/Los_Angeles" -> LosAngeles

\* The names of the zones a run of this model is made in.
Zones == {"America/Los_Angeles"}

RECURSIVE LastBegun(_, _, _, _)
\* The position of the last of periods[lo..hi] that has begun at second s,
\* lo - 1 if none has (bisection of the ordered periods).
LastBegun(periods, s, lo, hi) ==
  IF lo > hi THEN lo - 1
  ELSE LET mid == (lo + hi) \div 2
       IN IF periods[mid][1] <= s
            THEN LastBegun(periods, s, mid + 1, hi)
            ELSE LastBegun(periods, s, lo, mid - 1)

\* Second s lies in one of the periods.
InPeriods(periods, s) ==
  LET i == LastBegun(periods, s, 1, Len(periods))
  IN i >= 1 /\ s < periods[i][2]

\* Daylight time holds at an instant by the listed periods of a zone.
DstByTable(tz, t) == InPeriods(tz.dstPeriods, t.day * 86400 + t.sec)

\* Daylight time holds at an instant by the rule of a zone in a year: the
\* local times of the rule are standard time at the start and daylight
\* time at the end of the period.
DstInYear(tz, t, year) ==
  /\ ~Before(t, [day |-> NthSunday(year, tz.ruleStart.month,
                                    tz.ruleStart.sunday),
                 sec |-> tz.ruleStart.at - tz.std])
  /\ Before(t, [day |-> NthSunday(year, tz.ruleEnd.month,
                                   tz.ruleEnd.sunday),
                sec |-> tz.ruleEnd.at - tz.dst])

\* Daylight time holds at an instant by the rule of a zone.
DstByRule(tz, t) == DstInYear(tz, t, CivilDate(t.day).year)

\* The offset from UTC that holds in a zone at an instant.
UtcOffsetAt(tz, t) ==
  IF Before(t, tz.lmtUntil) THEN tz.lmt
  ELSE IF t.day < tz.tableFrom THEN tz.std
  ELSE IF t.day < tz.ruleFrom
    THEN IF DstByTable(tz, t) THEN tz.dst ELSE tz.std
    ELSE IF DstByRule(tz, t) THEN tz.dst ELSE tz.std

\* An instant moved by a number of seconds.
Shift(t, seconds) ==
  [day |-> t.day + (t.sec + seconds) \div 86400,
   sec |-> (t.sec + seconds) % 86400]

\* The local time of an instant in a zone, as days since 1970-01-01 and
\* seconds of the day on the local clock.
LocalTime(tz, t) == Shift(t, UtcOffsetAt(tz, t))

\* What an operation that raises ValueError yields instead of a value.
ValueError == [raised |-> "ValueError"]

\* The day numbers of 0001-01-01, of 9999-12-31 and of 1900-01-01.
FirstDay == -719162
LastDay == 2932896
FirstDayOf1900 == -25567

\* An operation has raised ValueError instead of yielding a value.
Raised(value) == "raised" \in DOMAIN value

\* A datetime of a local time: ValueError when the year is outside 1..9999.
Datetime(local) ==
  IF local.day < FirstDay \/ local.day > LastDay THEN ValueError ELSE local

\* Lines 113, 116: datetime.fromtimestamp(s): the naive local time; it
\* raises ValueError when the year of the local time is outside 1..9999.
FromTimestamp(tz, t) == Datetime(LocalTime(tz, t))

\* Line 120: strftime of Python 2.7 refuses a local time whose year is
\* before 1900.
StrfTimeRaises(local) == local.day < FirstDayOf1900

\* Line 118: weekday() of a local time, 0 for Monday; 1970-01-01 was a
\* Thursday.
Weekday(local) == (local.day + 3) % 7

\* Line 119: the hour of a local time.
Hour(local) == local.sec \div 3600

\* "%Y-%m-%d %H:%M" of a date and the local time of day; the year has four
\* digits.
Formatted(date, local) ==
  <<ToString(date.year) \o "-" \o Pad2(date.month) \o "-"
      \o Pad2(date.day) \o " " \o Pad2(Hour(local)) \o ":"
      \o Pad2((local.sec % 3600) \div 60)>>

\* Line 120: strftime("%Y-%m-%d %H:%M") of a local time; it raises
\* ValueError before 1900, so the year is at least 1900 and at most 9999.
StrfTime(local) ==
  IF StrfTimeRaises(local) THEN ValueError
  ELSE Formatted(CivilDate(local.day), local)

\* Lines 113-114: (today - created).days: the difference of two local
\* times in whole days, rounded down.
AgeDays(today, created) ==
  today.day - created.day - (IF today.sec < created.sec THEN 1 ELSE 0)

(* --------------------------- server records ---------------------------- *)

\* Category records of /2/categories.
CatTech == [id |-> 1, name |-> <<"Tech">>]
CatArts == [id |-> 2, name |-> <<"Arts", ",", " Culture">>]

\* Category lists the categories endpoint returns in this model.
CategoryLists == {<<>>, <<CatArts, CatTech>>}

GroupHikers ==
  [created |-> Millis(1, 5, 0), name |-> <<"SD", ",", " Hikers">>, id |-> 7,
   group_lat |-> 3295, group_lon |-> -11710]

\* An event with a venue and a status of its own.
EvVenue ==
  [group |-> GroupHikers, venue |-> [lat |-> 3272, lon |-> -11716],
   waitlist_count |-> 0, yes_rsvp_count |-> 5,
   time |-> Millis(24, 10800, 0),
   name |-> <<"Foo", ",", " Bar">>, id |-> <<"ev1">>,
   status |-> <<"upcoming">>]

\* An event with neither venue nor status.
EvNoVenue ==
  [group |-> GroupHikers, waitlist_count |-> 2, yes_rsvp_count |-> 3,
   time |-> Millis(23, 0, 0), name |-> <<"Hike">>, id |-> <<"ev2">>]

\* The events the server holds for a query, in the order it lists them.
ServerEvents == <<EvVenue, EvNoVenue>>

\* A group whose creation timestamp lies after the year 9999.
GroupBeyond ==
  [created |-> Millis(2933000, 0, 0), name |-> <<"Far">>, id |-> 8,
   group_lat |-> 3295, group_lon |-> -11710]

\* An event of that group: line 113 raises.
EvOfGroupBeyond ==
  [group |-> GroupBeyond, waitlist_count |-> 0, yes_rsvp_count |-> 1,
   time |-> Millis(23, 0, 0), name |-> <<"Meet">>, id |-> <<"ev3">>]

\* An event whose start timestamp lies after the year 9999: line 116
\* raises.
EvBeyond ==
  [group |-> GroupHikers, waitlist_count |-> 0, yes_rsvp_count |-> 1,
   time |-> Millis(2933000, 0, 0), name |-> <<"Meet">>, id |-> <<"ev4">>]

\* An event whose start timestamp lies in 1899: line 120 raises.
EvOf1899 ==
  [group |-> GroupHikers, waitlist_count |-> 0, yes_rsvp_count |-> 1,
   time |-> Millis(-25600, 0, 0), name |-> <<"Meet">>, id |-> <<"ev5">>]

\* Events with a timestamp that datetime cannot convert or format.
RaisingEvents == {EvOfGroupBeyond, EvBeyond, EvOf1899}

\* The results of a page: consecutive events of the server's list.
Slices(events) ==
  {<<>>} \cup
  {SubSeq(events, x[1], x[2]) :
     x \in {y \in (1..Len(events)) \X (1..Len(events)) : y[1] <= y[2]}}

\* JSON envelopes of a well-formed /2/open_events page: count is the number
\* of results; total_count is at least count and at most the number of
\* events the server holds.
Pages ==
  {[meta |-> [count |-> Len(x[1]), total_count |-> x[2]], results |-> x[1]] :
      x \in {y \in Slices(ServerEvents) \X (0..Len(ServerEvents)) :
               Len(y[1]) <= y[2]}}

\* Well-formed pages that hold such an event after an event of the
\* server's list.
RaisingPages ==
  {[meta |-> [count |-> 2, total_count |-> 2], results |-> <<EvVenue, e>>] :
      e \in RaisingEvents}

\* JSON body of an error response: {"details": ...}.
ErrorBody == [details |-> "error"]

\* A JSON body with neither details nor results.
OtherBody == [x |-> 1]

\* A body that is not JSON.
NotJson == [notjson |-> TRUE]

\* The bodies the categories endpoint answers with.
CategoryBodies ==
  {NotJson, ErrorBody, OtherBody} \cup {[results |-> c] : c \in CategoryLists}

\* A header value: requests delivers strings, a stubbed transport may
\* deliver numbers.
HStr(n) == [type |-> "str", val |-> n]
HInt(n) == [type |-> "int", val |-> n]

\* X-RateLimit-Remaining / X-RateLimit-Reset of a response that closes the
\* rate-limit window, as requests delivers them and as numbers.
HeaderSets ==
  {[remaining |-> HStr(0), reset |-> HStr(5)],
   [remaining |-> HInt(0), reset |-> HInt(5)]}

\* The answers with a well-formed page in this model: every page with the
\* headers as requests delivers them, and the pages of the event EvNoVenue
\* alone, one that ends its pair and one that does not, also with the
\* headers as numbers.
PageAnswers ==
  {x \in Pages \X HeaderSets :
     x[2].remaining.type = "str" \/ x[1].results = <<EvNoVenue>>}

NoHeaders == [remaining |-> HStr(0), reset |-> HStr(0)]

\* The headers of a response inside the rate-limit window.
PlainHeaders == [remaining |-> HStr(29), reset |-> HStr(5)]

\* HTTP statuses the server answers with.
Statuses == {200, 404, 500}

\* Statuses of the answers whose body is not JSON, 500 apart.
MalformedStatuses == {200}

(* ------------------------- event flattening ---------------------------- *)

\* Coordinates taken from the group whether or not there is a venue.
CoordinatesOfGroup(event) ==
  <<event.group.group_lat, event.group.group_lon>>

\* Lines 123-129: venue coordinates if the event has a venue, else the
\* group's.
Coordinates(event) ==
  IF "venue" \in DOMAIN event
    THEN <<event.venue.lat, event.venue.lon>>
    ELSE <<event.group.group_lat, event.group.group_lon>>

\* A status column that is always the time-status of the request.
EventStatus2OfRequest(event, event_status) == <<event_status>>

\* Lines 134-137: the event's status if present, else the time-status of
\* the request.
EventStatus2(event, event_status) ==
  IF "status" \in DOMAIN event THEN event.status ELSE <<event_status>>

\* Lines 114-142: the 14 fields of one row, each converted by unicode();
\* now is datetime.today(), the local time when the row is built.
RowFields(category, event, event_status, now, group_created_datetime, event_time) ==
  LET group == event.group
      ll == Coordinates(event)
  IN << category.name,
        UnicodeInt(AgeDays(now, group_created_datetime)),
        Replace(group.name, ",", ";"),
        UnicodeInt(group.id),
        UnicodeFloat(ll[1]),
        UnicodeFloat(ll[2]),
        UnicodeInt(event.waitlist_count),
        UnicodeInt(event.yes_rsvp_count),
        <<DayNames[Weekday(event_time) + 1]>>,
        UnicodeInt(Hour(event_time)),
        StrfTime(event_time),
        Replace(event.name, ",", ";"),
        event.id,
        EventStatus2(event, event_status) >>

\* Lines 140-143: one line of the file (the newline is the line boundary).
RowLine(category, event, event_status, now, group_created_datetime, event_time) ==
  Join(RowFields(category, event, event_status, now, group_created_datetime,
                 event_time), ",")

\* Lines 113, 116, 120: building the row of an event raises ValueError:
\* the creation time of its group or its start time cannot be converted,
\* or its start time cannot be formatted.
RowRaises(group_created_datetime, event_time) ==
  \/ Raised(group_created_datetime)
  \/ Raised(event_time)
  \/ StrfTimeRaises(event_time)

\* Lines 114-143 for one event, the conversions of lines 113 and 116
\* made: building its row raises, or the line that is written.
RowBuilt(category, event, event_status, now, group_created_datetime, event_time) ==
  IF RowRaises(group_created_datetime, event_time) THEN [raises |-> TRUE]
  ELSE [raises |-> FALSE,
        line |-> RowLine(category, event, event_status, now,
                         group_created_datetime, event_time)]

\* Lines 112-143 for one event in the zone of the process, today being
\* the wall clock when the row is built, in seconds since the epoch.
RowOf(category, event, event_status, today, tzname) ==
  RowBuilt(category, event, event_status,
           FromTimestamp(TimeZone(tzname), Instant(today)),
           FromTimestamp(TimeZone(tzname), Seconds(event.group.created)),
           FromTimestamp(TimeZone(tzname), Seconds(event.time)))

\* The categories, events and time-statuses of this model.
AllCategories == {CatTech, CatArts}
AllEvents == {ServerEvents[i] : i \in 1..Len(ServerEvents)} \cup RaisingEvents
AllStatuses == {EventStatuses[i] : i \in 1..Len(EventStatuses)}

RECURSIVE RowTable(_)
\* RowOf, tabulated over a set of <<category, event, time-status, today,
\* tzname>>.
RowTable(keys) ==
  IF keys = {} THEN <<>>
  ELSE LET k == CHOOSE x \in keys : TRUE
       IN (k :> RowOf(k[1], k[2], k[3], k[4], k[5])) @@ RowTable(keys \ {k})

\* Line 149: response.headers['X-RateLimit-Remaining'] == 0.  A string
\* never equals a number.
RateLimitReached(headers) ==
  headers.remaining.type = "int" /\ headers.remaining.val = 0

\* Line 152: response.headers['X-RateLimit-Reset'] + 0.1, in tenths.
RateLimitWait(headers) == headers.reset.val * 10 + RateLimitMargin

\* The time one sleep takes: line 91, and line 152 after a page whose
\* headers close the rate-limit window.
Sleeps == {RetryDelay} \cup {RateLimitWait(h) : h \in HeaderSets}

RECURSIVE SleptIn(_)
\* The time slept in at most n sleeps.
SleptIn(n) ==
  IF n = 0 THEN {0}
  ELSE SleptIn(n - 1) \cup {s + d : s \in SleptIn(n - 1), d \in Sleeps}

\* The values of datetime.today() a run of this model reads.
AllTodays ==
  {TodayAt(s) : s \in SleptIn(MaxRequests) \cup
                      {n * RetryDelay : n \in 0..(MaxSleeps + 1)}}

RECURSIVE RowTables(_)
\* RowOf, tabulated over the categories, events and time-statuses of this
\* model and a set of wall clocks.
RowTables(todays) ==
  IF todays = {} THEN <<>>
  ELSE LET t == CHOOSE x \in todays : TRUE
       IN RowTable(AllCategories \X AllEvents \X AllStatuses \X {t} \X Zones)
            @@ RowTables(todays \ {t})

\* RowOf of the categories, events, time-statuses and wall clocks of this
\* model, evaluated once.
Rows == RowTables(AllTodays)

\* RowOf of a key, read from a table where the table holds it.
Lookup(table, key) ==
  IF key \in DOMAIN table THEN table[key]
  ELSE RowOf(key[1], key[2], key[3], key[4], key[5])

\* Lines 112-143 for one event.
Row(category, event, event_status, today, tzname) ==
  Lookup(Rows, <<category, event, event_status, today, tzname>>)

\* The least of a set of positions, 0 when there is none.
Least(positions) ==
  IF positions = {} THEN 0
  ELSE CHOOSE i \in positions : \A j \in positions : i <= j

\* Lines 111-120: the position in results of the first event whose row
\* cannot be built, 0 when every row can be built.
FirstRaising(category, results, event_status, today, tzname) ==
  Least({i \in 1..Len(results) :
           Row(category, results[i], event_status, today, tzname).raises})

\* A writer that repeats the header row in front of the rows of every page.
PageLinesWithHeader(category, results, event_status, today, tzname) ==
  <<HeaderRow>> \o
  [i \in 1..Len(results) |->
     Row(category, results[i], event_status, today, tzname).line]

\* Lines 111-143: the lines written for the events of one page, in order.
PageLines(category, results, event_status, today, tzname) ==
  [i \in 1..Len(results) |->
     Row(category, results[i], event_status, today, tzname).line]

(* ------------------------------- state --------------------------------- *)

VARIABLES
  pc,            \* "start", "fetch" (top of the retry loop), "done", "exit"
  exitCode,      \* argument of exit(), 0 after DONE!, 1 after a traceback
  exitKind,      \* "none", "done", "exit" (exit(n) called), "traceback"
  categories,    \* result of get_categories()
  fileOpened,    \* events.csv has been opened for writing
  output_file,   \* lines of events.csv
  catIdx,        \* position of the outer loop in categories
  statusIdx,     \* position of the inner loop in EventStatuses
  offset, downloaded, total, retry,
  response,      \* last response object bound to the local `response`
  data,          \* last parsed JSON body bound to the local `data`
  clock,         \* time slept since the last page was processed (or since
                 \* the start), tenths of a second
  slept,         \* time slept since the start, tenths of a second
  reqLog,        \* history: every request issued, in order
  pageOutcomes,  \* history: outcomes of the attempts for the current page
  accepted,      \* history: every page processed, in order
  lastAccept,    \* history: headers and request number of the last
                 \* processed page
  lastReqTime,   \* history: clock when the last request was issued
  lastPairEnd,   \* history: counters when the last finished pair was left
  abandoned,     \* history: the page in hand when an exception raised while
                 \* its rows were built ended the process, and the number
                 \* of its rows written before
  lastHttp,      \* history: HTTP status of the last request, 0 when the
                 \* request failed below HTTP
  lastBody,      \* history: JSON body of the answer to the last request,
                 \* NoData when there was no answer or it was not JSON
  catReply,      \* history: what the categories endpoint answered
  recording,     \* the histories of requests and processed pages are kept
  zone           \* the name of the time zone of the process (TZ)

vars == <<pc, exitCode, exitKind, categories, fileOpened, output_file, catIdx,
          statusIdx, offset, downloaded, total, retry, response, data, clock,
          slept, reqLog, pageOutcomes, accepted, lastAccept, lastReqTime,
          lastPairEnd, abandoned, lastHttp, lastBody, catReply, recording,
          zone>>

\* The local `response` before its first assignment.
NoResponse == [bound |-> FALSE, status_code |-> 0, headers |-> NoHeaders]

Response(status, headers) ==
  [bound |-> TRUE, status_code |-> status, headers |-> headers]

\* The local `data` before its first assignment.
NoData == [unbound |-> TRUE]

NoAccept == [valid |-> FALSE, headers |-> NoHeaders, reqIdx |-> 0]

NoReply == [valid |-> FALSE, http |-> 0, bodyOk |-> FALSE, results |-> <<>>]

NoAbandoned ==
  [valid |-> FALSE, category |-> [id |-> 0, name |-> <<>>], status |-> "",
   results |-> <<>>, written |-> 0, reqIdx |-> 0, today |-> 0]

NoPairEnd == [valid |-> FALSE, category |-> 0, status |-> "", downloaded |-> 0,
              total |-> 0]

Init ==
  /\ pc = "start"
  /\ exitCode = 0
  /\ exitKind = "none"
  /\ categories = <<>>
  /\ fileOpened = FALSE
  /\ output_file = <<>>
  /\ catIdx = 0
  /\ statusIdx = 0
  /\ offset = 0
  /\ downloaded = 0
  /\ total = 0
  /\ retry = 0
  /\ response = NoResponse
  /\ data = NoData
  /\ clock = 0
  /\ slept = 0
  /\ reqLog = <<>>
  /\ pageOutcomes = <<>>
  /\ accepted = <<>>
  /\ lastAccept = NoAccept
  /\ lastReqTime = 0
  /\ lastPairEnd = NoPairEnd
  /\ abandoned = NoAbandoned
  /\ lastHttp = 0
  /\ lastBody = NoData
  /\ catReply = NoReply
  /\ recording = TRUE
  /\ zone \in Zones

(* ----------------------------- termination ----------------------------- *)

\* exit(code): the process ends with that code.
Exit(code) ==
  /\ pc' = "exit"
  /\ exitKind' = "exit"
  /\ exitCode' = code

\* An exception nobody catches: traceback, interpreter exit status 1.
Traceback ==
  /\ pc' = "exit"
  /\ exitKind' = "traceback"
  /\ exitCode' = TracebackExit

\* Line 153: the loops are over, DONE! is printed, exit status 0.
Done ==
  /\ pc' = "done"
  /\ exitKind' = "done"
  /\ exitCode' = 0

\* The exit status the operating system reports: the low eight bits of the
\* argument of exit().
ExitStatus == exitCode % 256

\* Line 105: exit(response.status_code); UnboundLocalError when no
\* response was ever bound.
ExitWithResponse(resp) ==
  IF resp.bound THEN Exit(resp.status_code) ELSE Traceback

(* ------------------------------ histories ------------------------------ *)

\* A history gets a new entry where histories are kept.
Remember(log, entry) == IF recording THEN Append(log, entry) ELSE log

\* The offset as the state holds it: exact where histories are kept, and
\* otherwise exact up to MaxOffset (the program sends the offset and never
\* tests it).
SeenOffset(o) == IF recording \/ o <= MaxOffset THEN o ELSE MaxOffset

(* --------------------------- category lister --------------------------- *)

\* Lines 78-80: the counters of a new (category, time-status) pair; line 83
\* resets retry at the top of the pagination loop.
StartPair(c, st) ==
  /\ catIdx' = c
  /\ statusIdx' = st
  /\ offset' = 0
  /\ downloaded' = 0
  /\ total' = 1
  /\ retry' = 0
  /\ pc' = "fetch"
  /\ UNCHANGED <<exitCode, exitKind>>

\* Line 49: requests.get raises (connection-level failure); nothing
\* catches it.
CategoriesUnreachable ==
  /\ pc = "start"
  /\ reqLog' = Remember(reqLog, [endpoint |-> "categories", category |-> 0,
                                 status |-> "", offset |-> 0])
  /\ lastReqTime' = clock
  /\ lastHttp' = 0
  /\ Traceback
  /\ UNCHANGED <<categories, fileOpened, output_file, catIdx, statusIdx,
                 offset, downloaded, total, retry, response, data, clock,
                 slept, pageOutcomes, accepted, lastAccept, lastPairEnd,
                 abandoned, lastBody, catReply, recording, zone>>

\* Lines 46-63: get_categories(), then the file is opened and the header
\* written, then the loops are entered.  response.json() is called before
\* the status is looked at, so a body that is not JSON raises ValueError
\* whatever the status.  With a status other than 200, line 52 logs
\* data['details'] before line 53 exits: KeyError when the body has no
\* details, UnicodeEncodeError when stderr cannot encode them (loggable is
\* FALSE).  With status 200, line 55 raises KeyError when the body has no
\* results.
GetCategories(status, body, loggable) ==
  /\ pc = "start"
  /\ reqLog' = Remember(reqLog, [endpoint |-> "categories", category |-> 0,
                                 status |-> "", offset |-> 0])
  /\ lastReqTime' = clock
  /\ lastHttp' = status
  /\ catReply' = [valid |-> TRUE, http |-> status,
                  bodyOk |-> body # NotJson,
                  results |-> IF status = 200 /\ "results" \in DOMAIN body
                                THEN body.results ELSE <<>>]
  /\ IF body = NotJson
       THEN /\ Traceback
            /\ UNCHANGED <<categories, fileOpened, output_file, catIdx,
                           statusIdx, offset, downloaded, total, retry>>
       ELSE IF status # 200
         THEN /\ IF "details" \in DOMAIN body /\ loggable
                   THEN Exit(status)
                   ELSE Traceback
              /\ UNCHANGED <<categories, fileOpened, output_file, catIdx,
                             statusIdx, offset, downloaded, total, retry>>
         ELSE IF "results" \notin DOMAIN body
           THEN /\ Traceback
                /\ UNCHANGED <<categories, fileOpened, output_file, catIdx,
                               statusIdx, offset, downloaded, total, retry>>
           ELSE /\ categories' = body.results
                /\ fileOpened' = TRUE
                /\ output_file' = <<HeaderRow>>
                /\ IF body.results = <<>>
                     THEN /\ Done
                          /\ UNCHANGED <<catIdx, statusIdx, offset,
                                         downloaded, total, retry>>
                     ELSE StartPair(1, 1)
  /\ UNCHANGED <<response, data, clock, slept, pageOutcomes, accepted,
                 lastAccept, lastPairEnd, abandoned, lastBody, recording,
                 zone>>

(* ------------------------ paginated event fetcher ---------------------- *)

\* An attempt counter that is never advanced.
NextRetryUncounted(r) == r

\* Line 85: every attempt is counted, whatever its outcome will be.
NextRetry(r) == r + 1

\* A retry loop that tests the counter with <= runs one attempt too many.
BudgetLeftInclusive(r) == r <= num_request_attempts

\* Line 84: the retry loop runs another attempt.
BudgetLeft(r) == r < num_request_attempts

\* A test that gives up one attempt too late.
GiveUpLate(r) == r > num_request_attempts

\* Line 103: the test that gives up after the retry loop.
GiveUp(r) == r >= num_request_attempts

\* An offset that is never advanced.
NextOffsetStuck(o) == o

\* Line 107.
NextOffset(o) == o + 1

\* A pagination loop that also continues when downloaded equals total.
MorePagesInclusive(dl, tot) == dl <= tot

\* Line 81: the pagination loop continues.
MorePages(dl, tot) == dl < tot

\* A loop nest that leaves the inner loop after its first time-status.
NextPairSkipsStatus(c, st) ==
  IF c < Len(categories) THEN <<c + 1, 1>> ELSE <<0, 0>>

\* Lines 66-68: the pair after (c, st) in loop order, <<0, 0>> at the end.
NextPair(c, st) ==
  IF st < Len(EventStatuses) THEN <<c, st + 1>>
  ELSE IF c < Len(categories) THEN <<c + 1, 1>>
  ELSE <<0, 0>>

\* History: what a JSON body holds as a page, if it is one.
PageContent(body) ==
  IF "meta" \in DOMAIN body
    THEN [wellFormed |-> TRUE, count |-> body.meta.count,
          results |-> body.results]
    ELSE [wellFormed |-> FALSE, count |-> 0, results |-> <<>>]

\* Line 87: the request of one attempt, as recorded in the history.
Request ==
  [endpoint |-> "events", category |-> categories[catIdx].id,
   status |-> EventStatuses[statusIdx], offset |-> offset]

\* Lines 107-152 and the loop heads 66, 68, 81: process the page in d that
\* came with resp, then continue paginating, move to the next pair, or
\* finish.  clk and sl are the time slept since the last page and since the
\* start when the page is taken up: line 114 reads the wall clock for
\* every event, and nothing sleeps between the events of a page.
ProcessPage(resp, d, clk, sl) ==
  IF "meta" \notin DOMAIN d
    THEN \* line 108 fails on an unbound or error body, after line 107
         /\ Traceback
         /\ offset' = SeenOffset(NextOffset(offset))
         /\ retry' = NextRetry(retry)
         /\ clock' = clk
         /\ slept' = sl
         /\ UNCHANGED <<catIdx, statusIdx, downloaded, total, output_file,
                        accepted, lastAccept, lastPairEnd, abandoned>>
    ELSE LET failing == FirstRaising(categories[catIdx], d.results,
                                     EventStatuses[statusIdx], TodayAt(sl),
                                     zone) IN
    IF failing # 0
    THEN \* line 113, 116 or 120 raises ValueError outside the try block,
         \* after lines 107-110 advanced the counters and the rows of the
         \* events before that event were written
            /\ Traceback
            /\ output_file' = output_file \o
                  PageLines(categories[catIdx],
                            SubSeq(d.results, 1, failing - 1),
                            EventStatuses[statusIdx], TodayAt(sl), zone)
            /\ abandoned' =
                  IF recording
                    THEN [valid |-> TRUE, category |-> categories[catIdx],
                          status |-> EventStatuses[statusIdx],
                          results |-> d.results, written |-> failing - 1,
                          reqIdx |-> Len(reqLog) + 1, today |-> TodayAt(sl)]
                    ELSE abandoned
            /\ offset' = SeenOffset(NextOffset(offset))
            /\ downloaded' = downloaded + d.meta.count
            /\ total' = d.meta.total_count
            /\ retry' = NextRetry(retry)
            /\ clock' = clk
            /\ slept' = sl
            /\ UNCHANGED <<catIdx, statusIdx, accepted, lastAccept,
                           lastPairEnd>>
    ELSE
      LET count == d.meta.count
          newTotal == d.meta.total_count
          newDownloaded == downloaded + count
          np == NextPair(catIdx, statusIdx)
          pairEnd == [valid |-> TRUE, category |-> categories[catIdx].id,
                      status |-> EventStatuses[statusIdx],
                      downloaded |-> newDownloaded, total |-> newTotal]
      IN /\ output_file' = output_file \o
               PageLines(categories[catIdx], d.results,
                         EventStatuses[statusIdx], TodayAt(sl), zone)
         /\ accepted' = Remember(accepted,
               [category |-> categories[catIdx],
                status |-> EventStatuses[statusIdx],
                offset |-> offset, count |-> count,
                results |-> d.results, reqIdx |-> Len(reqLog) + 1,
                http |-> lastHttp', answer |-> PageContent(lastBody'),
                today |-> TodayAt(sl)])
         /\ lastAccept' = [valid |-> TRUE, headers |-> resp.headers,
                           reqIdx |-> Len(reqLog) + 1]
         /\ UNCHANGED abandoned
         /\ IF RateLimitReached(resp.headers) /\ resp.headers.reset.type # "int"
              THEN \* line 152: str + float raises TypeError
                   /\ Traceback
                   /\ clock' = 0
                   /\ slept' = sl
                   /\ offset' = SeenOffset(NextOffset(offset))
                   /\ downloaded' = newDownloaded
                   /\ total' = newTotal
                   /\ retry' = NextRetry(retry)
                   /\ UNCHANGED <<catIdx, statusIdx, lastPairEnd>>
              ELSE
                /\ clock' = IF RateLimitReached(resp.headers)
                              THEN RateLimitWait(resp.headers)
                              ELSE 0
                /\ slept' = IF RateLimitReached(resp.headers)
                              THEN sl + RateLimitWait(resp.headers)
                              ELSE sl
                /\ IF MorePages(newDownloaded, newTotal)
                     THEN /\ pc' = "fetch"
                          /\ offset' = SeenOffset(NextOffset(offset))
                          /\ downloaded' = newDownloaded
                          /\ total' = newTotal
                          /\ retry' = 0
                          /\ UNCHANGED <<catIdx, statusIdx, exitCode, exitKind,
                                         lastPairEnd>>
                     ELSE IF np # <<0, 0>>
                       THEN /\ StartPair(np[1], np[2])
                            /\ lastPairEnd' = pairEnd
                       ELSE /\ Done
                            /\ lastPairEnd' = pairEnd
                            /\ offset' = SeenOffset(NextOffset(offset))
                            /\ downloaded' = newDownloaded
                            /\ total' = newTotal
                            /\ retry' = NextRetry(retry)
                            /\ UNCHANGED <<catIdx, statusIdx>>

\* A fetcher that moves on to the next offset when an attempt has failed.
AfterFailureAdvancing(resp, d, clk, sl) ==
  IF BudgetLeft(NextRetry(retry))
    THEN /\ pc' = "fetch"
         /\ retry' = NextRetry(retry)
         /\ clock' = clk
         /\ slept' = sl
         /\ offset' = NextOffset(offset)
         /\ UNCHANGED <<exitCode, exitKind, catIdx, statusIdx,
                        downloaded, total, output_file, accepted, lastAccept,
                        lastPairEnd, abandoned>>
    ELSE /\ ExitWithResponse(resp)
         /\ retry' = NextRetry(retry)
         /\ clock' = clk
         /\ slept' = sl
         /\ UNCHANGED <<catIdx, statusIdx, offset, downloaded, total,
                        output_file, accepted, lastAccept, lastPairEnd,
                        abandoned>>

\* Lines 84, 103-105: after an attempt that did not break out of the retry
\* loop: try again, or leave the loop and give up with the status of
\* whatever `response` is bound to.
AfterFailure(resp, d, clk, sl) ==
  IF BudgetLeft(NextRetry(retry))
    THEN /\ pc' = "fetch"
         /\ retry' = NextRetry(retry)
         /\ clock' = clk
         /\ slept' = sl
         /\ UNCHANGED <<exitCode, exitKind, catIdx, statusIdx, offset,
                        downloaded, total, output_file, accepted, lastAccept,
                        lastPairEnd, abandoned>>
    ELSE IF GiveUp(NextRetry(retry))
      THEN /\ ExitWithResponse(resp)
           /\ retry' = NextRetry(retry)
           /\ clock' = clk
           /\ slept' = sl
           /\ UNCHANGED <<catIdx, statusIdx, offset, downloaded, total,
                          output_file, accepted, lastAccept, lastPairEnd,
                        abandoned>>
      ELSE ProcessPage(resp, d, clk, sl)

\* A fetcher that writes the rows of the page before it tests the attempt
\* counter.
AfterBreakWritesFirst(resp, d, clk, sl) ==
  IF GiveUp(NextRetry(retry))
    THEN /\ ExitWithResponse(resp)
         /\ retry' = NextRetry(retry)
         /\ clock' = clk
         /\ slept' = sl
         /\ output_file' = output_file \o
               PageLines(categories[catIdx],
                         SelectSeq(d.results,
                           LAMBDA e :
                             ~Row(categories[catIdx], e,
                                  EventStatuses[statusIdx], TodayAt(sl),
                                  zone).raises),
                         EventStatuses[statusIdx], TodayAt(sl), zone)
         /\ UNCHANGED <<catIdx, statusIdx, offset, downloaded, total,
                        accepted, lastAccept, lastPairEnd, abandoned>>
    ELSE ProcessPage(resp, d, clk, sl)

\* Lines 97, 103-105: after the break of a good attempt: line 103 still
\* tests the attempt counter before the page is processed.
AfterBreak(resp, d, clk, sl) ==
  IF GiveUp(NextRetry(retry))
    THEN /\ ExitWithResponse(resp)
         /\ retry' = NextRetry(retry)
         /\ clock' = clk
         /\ slept' = sl
         /\ UNCHANGED <<catIdx, statusIdx, offset, downloaded, total,
                        output_file, accepted, lastAccept, lastPairEnd,
                        abandoned>>
    ELSE ProcessPage(resp, d, clk, sl)

\* Lines 85-87: one more attempt is started and its request issued.
Issue(kind, http) ==
  /\ pc = "fetch"
  /\ recording => Len(reqLog) < MaxRequests
  /\ reqLog' = Remember(reqLog, Request)
  /\ lastReqTime' = clock
  /\ pageOutcomes' = (IF retry = 0 THEN <<>> ELSE pageOutcomes) \o <<kind>>
  /\ lastHttp' = http
  /\ UNCHANGED <<catReply, recording, zone>>

\* Lines 87, 101-102: requests.get raises (connection-level failure); the
\* bare except logs it; `response` and `data` keep their old bindings.
ConnectionFailure ==
  /\ Issue("conn", 0)
  /\ lastBody' = NoData
  /\ UNCHANGED <<response, data, categories, fileOpened>>
  /\ AfterFailure(response, data, clock, slept)

\* Lines 89-91, 98-100: HTTP 500: log the body text, sleep 10 s; the body
\* is not parsed.  When stderr cannot encode the text (loggable is FALSE)
\* line 90 raises UnicodeEncodeError, a ValueError, which line 98 catches:
\* the sleep of line 91 is skipped.  Where no history is kept, a run
\* sleeps at most MaxSleeps times.
ServerError(loggable) ==
  /\ Issue("500", 500)
  /\ (loggable /\ ~recording) => slept < MaxSleeps * RetryDelay
  /\ lastBody' = NoData
  /\ response' = Response(500, NoHeaders)
  /\ UNCHANGED <<data, categories, fileOpened>>
  /\ AfterFailure(response', data,
                  IF loggable THEN clock + RetryDelay ELSE clock,
                  IF loggable THEN slept + RetryDelay ELSE slept)

\* Lines 93, 98-100: the body is not JSON: response.json() raises
\* ValueError, which is logged; `data` keeps its old binding.
MalformedBody(status) ==
  /\ status # 500
  /\ Issue("malformed", status)
  /\ lastBody' = NoData
  /\ response' = Response(status, NoHeaders)
  /\ UNCHANGED <<data, categories, fileOpened>>
  /\ AfterFailure(response', data, clock, slept)

\* Lines 93-96, 98-102: a JSON body with a status other than 200 and 500:
\* exit(status) raises SystemExit inside the try block, where the bare
\* except catches and logs it, so the retry loop goes on.  It goes on in
\* the same way when line 95 raises before the exit: KeyError (no details,
\* bare except) or UnicodeEncodeError (stderr cannot encode them, line 98).
ErrorStatus(status) ==
  /\ status \notin {200, 500}
  /\ Issue("error", status)
  /\ lastBody' = ErrorBody
  /\ response' = Response(status, NoHeaders)
  /\ data' = ErrorBody
  /\ UNCHANGED <<categories, fileOpened>>
  /\ AfterFailure(response', data', clock, slept)

\* Lines 93-97, 103-152: HTTP 200 with a well-formed page: break.
PageOk(page, headers) ==
  /\ Issue("ok", 200)
  /\ lastBody' = page
  /\ response' = Response(200, headers)
  /\ data' = page
  /\ UNCHANGED <<categories, fileOpened>>
  /\ AfterBreak(response', data', clock, slept)

Next ==
  \/ CategoriesUnreachable
  \/ \E status \in Statuses, body \in CategoryBodies, loggable \in BOOLEAN :
        GetCategories(status, body, loggable)
  \/ ConnectionFailure
  \/ \E loggable \in BOOLEAN : ServerError(loggable)
  \/ \E status \in MalformedStatuses : MalformedBody(status)
  \/ \E status \in Statuses : ErrorStatus(status)
  \/ \E answer \in PageAnswers : PageOk(answer[1], answer[2])
  \/ \E page \in RaisingPages : PageOk(page, PlainHeaders)

Spec == Init /\ [][Next]_vars

\* The same program against a categories endpoint that always answers, with
\* the JSON body of its status (results with 200, details otherwise), an
\* events endpoint whose timestamps datetime converts and formats, and a
\* stderr that encodes every text.
NextJsonCategories ==
  \/ \E status \in Statuses, cats \in CategoryLists :
        GetCategories(status,
                      IF status = 200 THEN [results |-> cats] ELSE ErrorBody,
                      TRUE)
  \/ ConnectionFailure
  \/ \E loggable \in BOOLEAN : ServerError(loggable)
  \/ \E status \in MalformedStatuses : MalformedBody(status)
  \/ \E status \in Statuses : ErrorStatus(status)
  \/ \E answer \in PageAnswers : PageOk(answer[1], answer[2])

SpecJsonCategories == Init /\ [][NextJsonCategories]_vars

(* ------------------- the program without its histories ----------------- *)

\* The start of a run of which no history is kept.
InitLive ==
  /\ pc = "start"
  /\ exitCode = 0
  /\ exitKind = "none"
  /\ categories = <<>>
  /\ fileOpened = FALSE
  /\ output_file = <<>>
  /\ catIdx = 0
  /\ statusIdx = 0
  /\ offset = 0
  /\ downloaded = 0
  /\ total = 0
  /\ retry = 0
  /\ response = NoResponse
  /\ data = NoData
  /\ clock = 0
  /\ slept = 0
  /\ reqLog = <<>>
  /\ pageOutcomes = <<>>
  /\ accepted = <<>>
  /\ lastAccept = NoAccept
  /\ lastReqTime = 0
  /\ lastPairEnd = NoPairEnd
  /\ abandoned = NoAbandoned
  /\ lastHttp = 0
  /\ lastBody = NoData
  /\ catReply = NoReply
  /\ recording = FALSE
  /\ zone \in Zones

\* The server of such a run: one category; pages of at most one event out
\* of at most one.
LiveCategoryLists == {<<>>, <<CatTech>>}

LiveCategoryBodies ==
  {NotJson, ErrorBody, OtherBody}
    \cup {[results |-> c] : c \in LiveCategoryLists}

LivePages ==
  {p \in Pages : p.meta.total_count <= 1 /\ p.results \in {<<>>, <<EvNoVenue>>}}

LiveHeaders == {[remaining |-> HStr(0), reset |-> HStr(5)]}

NextLive ==
  \/ CategoriesUnreachable
  \/ \E status \in Statuses, body \in LiveCategoryBodies, loggable \in BOOLEAN :
        GetCategories(status, body, loggable)
  \/ ConnectionFailure
  \/ \E loggable \in BOOLEAN : ServerError(loggable)
  \/ \E status \in MalformedStatuses : MalformedBody(status)
  \/ \E status \in Statuses : ErrorStatus(status)
  \/ \E page \in LivePages, headers \in LiveHeaders : PageOk(page, headers)

\* Every request returns, and the single thread of control then takes its
\* next step: the program never stops while it has a step to take.
SpecLive == InitLive /\ [][NextLive]_vars /\ WF_vars(NextLive)

(* ------------------------------ properties ----------------------------- *)

Terminated == pc \in {"done", "exit"}

\* The process ended by exit(n) or by a traceback.
EndedInError == pc = "exit"

\* The last request was answered by a page that was processed.
LastRequestAccepted ==
  /\ accepted # <<>>
  /\ accepted[Len(accepted)].reqIdx = Len(reqLog)

\* Number of requests at the end of the history that repeat the last one:
\* the attempts made for the page being fetched.
RECURSIVE TrailingRepeats(_)
TrailingRepeats(log) ==
  IF Len(log) <= 1 THEN Len(log)
  ELSE IF log[Len(log) - 1] = log[Len(log)]
    THEN 1 + TrailingRepeats(SubSeq(log, 1, Len(log) - 1))
    ELSE 1

\* C1 (as claimed): when the attempts for a page were answered 500, 500 and
\* then 200 with a well-formed body, exactly three attempts were made, the
\* page is accepted and the process has not ended in error.
C1_SucceedsOnThirdAttempt ==
  pageOutcomes = <<"500", "500", "ok">> =>
    /\ TrailingRepeats(reqLog) = 3
    /\ LastRequestAccepted
    /\ ~EndedInError

\* C2: three HTTP 500 answers in a row for a page end the process by
\* exit(500), a non-zero exit status, after exactly three attempts; nothing
\* can follow.
C2_ThreeServerErrorsAreFatal ==
  (Len(pageOutcomes) >= 3 /\ \A i \in 1..3 : pageOutcomes[i] = "500") =>
    /\ Len(pageOutcomes) = 3
    /\ TrailingRepeats(reqLog) = 3
    /\ pc = "exit"
    /\ exitKind = "exit"
    /\ exitCode = 500
    /\ ExitStatus # 0
    /\ ~ENABLED Next

C2_Witness ==
  /\ pageOutcomes = <<"500", "500", "500">>
  /\ pc = "exit"
  /\ accepted # <<>>

\* C3 (as claimed): an events response whose status is neither 200 nor 500
\* ends the process at once with that status; no attempt follows it.
C3_OtherStatusIsFatalAtOnce ==
  /\ \A i \in 1..Len(pageOutcomes) :
        pageOutcomes[i] = "error" => i = Len(pageOutcomes)
  /\ (pageOutcomes # <<>> /\ pageOutcomes[Len(pageOutcomes)] = "error") =>
        /\ pc = "exit"
        /\ exitKind = "exit"
        /\ exitCode = lastHttp

\* The last processed page said that no requests remain in the window.
RateLimitIndicated ==
  lastAccept.valid /\ lastAccept.headers.remaining.val = 0

\* C4 (as claimed): a request that follows a processed page whose
\* rate-limit-remaining header is zero is issued only after the reset time
\* of that page, plus the margin, has passed.
C4_WaitsForRateLimitReset ==
  (RateLimitIndicated /\ Len(reqLog) > lastAccept.reqIdx) =>
    lastReqTime >= lastAccept.headers.reset.val * 10 + RateLimitMargin

(* --------------------- properties: pagination -------------------------- *)

\* The processed pages of one (category, time-status) pair.
PairPages(cid, st) ==
  SelectSeq(accepted, LAMBDA a : a.category.id = cid /\ a.status = st)

\* Those of them that answered a request issued before request k.
PagesBefore(cid, st, k) ==
  SelectSeq(accepted,
            LAMBDA a : a.category.id = cid /\ a.status = st /\ a.reqIdx < k)

RECURSIVE EventCount(_)
\* Number of events in a sequence of processed pages.
EventCount(pages) ==
  IF pages = <<>> THEN 0
  ELSE Len(pages[1].results) + EventCount(Tail(pages))

RECURSIVE ReportedCount(_)
\* Sum of the counts the server reported for a sequence of processed pages.
ReportedCount(pages) ==
  IF pages = <<>> THEN 0
  ELSE pages[1].count + ReportedCount(Tail(pages))

\* Position of the last request issued for a pair, 0 if there is none.
LastRequestOf(cid, st) ==
  LET ks == {k \in 1..Len(reqLog) :
               /\ reqLog[k].endpoint = "events"
               /\ reqLog[k].category = cid
               /\ reqLog[k].status = st}
  IN IF ks = {} THEN 0 ELSE CHOOSE k \in ks : \A j \in ks : j <= k

\* C5: within a pair every request carries as offset the number of pages
\* of the pair processed so far (0 first, one more after each processed
\* page); the downloaded counter is the sum of the counts of those pages;
\* requests go on while downloaded < total, and a pair is left, with no
\* later request, only once downloaded >= total.
C5_OffsetsAdvanceUntilTotalReached ==
  /\ \A k \in 1..Len(reqLog) :
        reqLog[k].endpoint = "events" =>
          reqLog[k].offset =
            Len(PagesBefore(reqLog[k].category, reqLog[k].status, k))
  /\ \A i \in 1..Len(accepted) :
        /\ reqLog[accepted[i].reqIdx].offset = accepted[i].offset
        /\ \A j \in 1..(i - 1) :
              (accepted[j].category = accepted[i].category
                 /\ accepted[j].status = accepted[i].status)
                => accepted[j].offset < accepted[i].offset
  /\ pc = "fetch" =>
        LET pages == PairPages(categories[catIdx].id, EventStatuses[statusIdx])
        IN /\ offset = Len(pages)
           /\ downloaded = ReportedCount(pages)
           /\ downloaded < total
           /\ pages = <<>> => total = 1
           /\ (pages # <<>> /\ LastRequestAccepted) =>
                 total = data.meta.total_count
  /\ lastPairEnd.valid =>
        LET pages == PairPages(lastPairEnd.category, lastPairEnd.status)
        IN /\ pages # <<>>
           /\ lastPairEnd.downloaded = ReportedCount(pages)
           /\ lastPairEnd.downloaded >= lastPairEnd.total
           /\ LastRequestOf(lastPairEnd.category, lastPairEnd.status)
                 = pages[Len(pages)].reqIdx

\* A pair took two pages and has been left.
C5_Witness ==
  /\ lastPairEnd.valid
  /\ Len(PairPages(lastPairEnd.category, lastPairEnd.status)) = 2
  /\ lastPairEnd.downloaded = 2

(* ----------------------- properties: output file ----------------------- *)

RECURSIVE ExpectedLines(_)
\* One line per event of every processed page, in order.
ExpectedLines(pages) ==
  IF pages = <<>> THEN <<>>
  ELSE [i \in 1..Len(pages[1].results) |->
          Rows[<<pages[1].category, pages[1].results[i], pages[1].status,
                 pages[1].today, zone>>].line]
       \o ExpectedLines(Tail(pages))

\* The events of the abandoned page whose rows were written.
AbandonedEvents ==
  IF abandoned.valid
    THEN SubSeq(abandoned.results, 1, abandoned.written)
    ELSE <<>>

\* The rows of those events.
AbandonedLines ==
  [i \in 1..Len(AbandonedEvents) |->
     Rows[<<abandoned.category, AbandonedEvents[i], abandoned.status,
            abandoned.today, zone>>].line]

\* Every page that passed line 103 and went into processing: the pages
\* processed to their end and the abandoned one.
PagesInProcessing ==
  IF abandoned.valid
    THEN Append(accepted, [results |-> abandoned.results])
    ELSE accepted

\* C6 (as claimed): once the file is opened it holds the header row and
\* exactly one data row for every event of every page that was accepted
\* for processing.
C6_OneRowPerEventOfEveryPage ==
  fileOpened =>
    /\ output_file[1] = HeaderRow
    /\ Len(output_file) = 1 + EventCount(PagesInProcessing)

\* C6 (amended): the file is empty until it is opened; from then on it is
\* the header row, once and first, followed by one row per event of every
\* page processed to its end, in processing order, and then, when a
\* ValueError raised while the row of an event was built has ended the
\* process, by the rows of the events that precede that event in its page
\* and no row for that event or for those after it; a page is processed to
\* its end exactly when the row of each of its events can be built; a
\* finished run that processed one event in all leaves the header and one
\* data row.
C6_FileIsHeaderPlusRows ==
  /\ ~fileOpened => output_file = <<>>
  /\ fileOpened =>
        /\ output_file =
              <<HeaderRow>> \o ExpectedLines(accepted) \o AbandonedLines
        /\ Len(output_file) = 1 + EventCount(accepted) + abandoned.written
        /\ \A i \in 2..Len(output_file) : output_file[i] # HeaderRow
  /\ \A i \in 1..Len(accepted) :
        FirstRaising(accepted[i].category, accepted[i].results,
                     accepted[i].status, accepted[i].today, zone) = 0
  /\ abandoned.valid =>
        /\ pc = "exit" /\ exitKind = "traceback"
        /\ abandoned.reqIdx = Len(reqLog)
        /\ abandoned.results = data.results
        /\ abandoned.written < Len(abandoned.results)
        /\ abandoned.written + 1 =
              FirstRaising(abandoned.category, abandoned.results,
                           abandoned.status, abandoned.today, zone)
  /\ (pc = "done" /\ EventCount(accepted) = 1) => Len(output_file) = 2

\* A run that processed a page of one event to its end has died on the
\* second event of the next page, after writing the row of its first.
C6_Witness ==
  /\ abandoned.valid
  /\ abandoned.written = 1
  /\ EventCount(accepted) = 1
  /\ Len(output_file) = 3

(* -------------------- properties: category lister ---------------------- *)

\* C7 (as claimed): one categories request at most; a status other than
\* 200 ends the process with that status before any events request and
\* before the file is opened; on 200 the returned list is the list used.
C7_CategoriesFailureExitsWithStatus ==
  /\ Len(SelectSeq(reqLog, LAMBDA r : r.endpoint = "categories")) <= 1
  /\ (catReply.valid /\ catReply.http # 200) =>
        /\ pc = "exit"
        /\ exitKind = "exit"
        /\ exitCode = catReply.http
        /\ Len(reqLog) = 1
        /\ ~fileOpened
  /\ (catReply.valid /\ catReply.http = 200 /\ catReply.bodyOk) =>
        categories = catReply.results

\* C8 (as claimed): a process that ended other than by DONE! has as exit
\* code the HTTP status of the last request it issued.
C8_ExitCodeIsLastHttpStatus ==
  EndedInError =>
    /\ exitKind = "exit"
    /\ lastHttp # 0
    /\ exitCode = lastHttp

(* ----------------------- properties: loop order ------------------------ *)

\* Position of a category id in the fetched list.
CatPos(cid) == CHOOSE i \in 1..Len(categories) : categories[i].id = cid

\* Position of a time-status in the inner loop.
StatusPos(st) == CHOOSE i \in 1..Len(EventStatuses) : EventStatuses[i] = st

\* Rank of a pair in loop order: categories in list order, past first.
PairNo(cid, st) == (CatPos(cid) - 1) * Len(EventStatuses) + StatusPos(st)

ReqPairNo(k) == PairNo(reqLog[k].category, reqLog[k].status)

\* C9: DONE! (exit code 0) comes only after every pair has had its pages
\* and was left with downloaded >= total; requests follow the loop order,
\* pair by pair without skipping, and the first request of a pair comes
\* only after the previous pair was left with downloaded >= total.
C9_PairsInOrderThenDone ==
  /\ (pc = "done") = (exitKind = "done")
  /\ exitKind = "done" => exitCode = 0
  /\ \A k \in 2..Len(reqLog) :
        /\ reqLog[k].endpoint = "events"
        /\ k = 2 => ReqPairNo(k) = 1
        /\ k > 2 =>
              \/ ReqPairNo(k) = ReqPairNo(k - 1)
              \/ /\ ReqPairNo(k) = ReqPairNo(k - 1) + 1
                 /\ reqLog[k].offset = 0
                 /\ \E i \in 1..Len(accepted) : accepted[i].reqIdx = k - 1
  /\ pc = "fetch" =>
        LET cur == (catIdx - 1) * Len(EventStatuses) + statusIdx
        IN /\ \A k \in 2..Len(reqLog) : ReqPairNo(k) <= cur
           /\ cur > 1 =>
                 /\ lastPairEnd.valid
                 /\ PairNo(lastPairEnd.category, lastPairEnd.status) = cur - 1
                 /\ lastPairEnd.downloaded >= lastPairEnd.total
  /\ pc = "done" =>
        /\ \A c \in 1..Len(categories), i \in 1..Len(EventStatuses) :
              PairPages(categories[c].id, EventStatuses[i]) # <<>>
        /\ categories # <<>> =>
              /\ lastPairEnd.valid
              /\ PairNo(lastPairEnd.category, lastPairEnd.status)
                    = Len(categories) * Len(EventStatuses)
              /\ lastPairEnd.downloaded >= lastPairEnd.total

C9_Witness ==
  /\ pc = "done"
  /\ Len(categories) = 2
  /\ EventCount(accepted) > 0

(* ----------------------- properties: flattening ------------------------ *)

RECURSIVE SplitOn(_, _)
\* text.split(sep) on tokenised text.
SplitOn(text, sep) ==
  IF text = <<>> THEN << <<>> >>
  ELSE LET rest == SplitOn(Tail(text), sep)
       IN IF Head(text) = sep THEN << <<>> >> \o rest
          ELSE << <<Head(text)>> \o rest[1] >> \o Tail(rest)

RECURSIVE ColumnTable(_)
\* The table of the columns of a set of lines.
ColumnTable(lines) ==
  IF lines = {} THEN <<>>
  ELSE LET l == CHOOSE x \in lines : TRUE
       IN (l :> SplitOn(l, ",")) @@ ColumnTable(lines \ {l})

\* The columns of every row the model can write, tabulated.
ColumnsOf ==
  ColumnTable({Rows[x].line : x \in {y \in DOMAIN Rows : ~Rows[y].raises}})

RECURSIVE WrittenEvents(_)
\* The events of the processed pages, in the order their rows were written.
WrittenEvents(pages) ==
  IF pages = <<>> THEN <<>>
  ELSE [i \in 1..Len(pages[1].results) |->
          [category |-> pages[1].category, status |-> pages[1].status,
           event |-> pages[1].results[i]]]
       \o WrittenEvents(Tail(pages))

\* The events whose rows were written, in the order of their rows: those
\* of the pages processed to their end, then those of the abandoned page.
RowsWritten ==
  WrittenEvents(accepted) \o
  [i \in 1..Len(AbandonedEvents) |->
     [category |-> abandoned.category, status |-> abandoned.status,
      event |-> AbandonedEvents[i]]]

\* C10: in the row of every event the lat and lon columns (the 10th and
\* 9th from the end of the line) are the venue's coordinates if the event
\* has a venue and the group's otherwise, never empty.
C10_VenueElseGroupCoordinates ==
  LET written == RowsWritten
  IN /\ fileOpened => Len(output_file) = Len(written) + 1
     /\ \A i \in 1..Len(written) :
           LET f == ColumnsOf[output_file[i + 1]]
               e == written[i].event
               lat == f[Len(f) - 9]
               lon == f[Len(f) - 8]
           IN /\ lat # <<>> /\ lon # <<>>
              /\ "venue" \in DOMAIN e =>
                    /\ lat = UnicodeFloat(e.venue.lat)
                    /\ lon = UnicodeFloat(e.venue.lon)
              /\ "venue" \notin DOMAIN e =>
                    /\ lat = UnicodeFloat(e.group.group_lat)
                    /\ lon = UnicodeFloat(e.group.group_lon)

\* A page with a venue event followed by a venue-less event was written.
C10_Witness ==
  /\ \E i \in 1..Len(accepted) :
        /\ Len(accepted[i].results) = 2
        /\ "venue" \in DOMAIN accepted[i].results[1]
        /\ "venue" \notin DOMAIN accepted[i].results[2]
  /\ Len(output_file) >= 3

\* C11: the status column (the last of the row) of every written event is
\* the event's own status when it has one and otherwise the time-status of
\* the request that returned it, whatever the events before it were; the
\* time-status of a processed page is that of its request, and every events
\* request carries a time-status of the inner loop.
C11_OwnStatusElseRequestStatus ==
  LET written == RowsWritten
  IN /\ fileOpened => Len(output_file) = Len(written) + 1
     /\ \A i \in 1..Len(written) :
           LET f == ColumnsOf[output_file[i + 1]]
               e == written[i].event
           IN /\ "status" \in DOMAIN e => f[Len(f)] = e.status
              /\ "status" \notin DOMAIN e => f[Len(f)] = <<written[i].status>>
     /\ \A i \in 1..Len(accepted) :
           reqLog[accepted[i].reqIdx].status = accepted[i].status
     /\ \A k \in 2..Len(reqLog) : reqLog[k].status \in AllStatuses
     /\ pc = "fetch" => Request.status = EventStatuses[statusIdx]

\* A page of the 'past' query held an event whose own status is 'upcoming'
\* followed by an event without status, and a request followed it.
C11_Witness ==
  /\ Len(accepted) >= 1
  /\ accepted[1].status = "past"
  /\ Len(accepted[1].results) = 2
  /\ "status" \in DOMAIN accepted[1].results[1]
  /\ accepted[1].results[1].status = <<"upcoming">>
  /\ "status" \notin DOMAIN accepted[1].results[2]
  /\ Len(output_file) >= 3
  /\ Len(reqLog) > accepted[1].reqIdx
  /\ reqLog[Len(reqLog)].status = "upcoming"

\* C12 (as claimed): every data row of the file has exactly 14
\* comma-separated fields, and the 12th is the event's name with its commas
\* turned into semicolons ('Foo, Bar' is written 'Foo; Bar').
C12_RowsHaveFourteenFields ==
  LET written == RowsWritten
  IN /\ fileOpened => Len(output_file) = Len(written) + 1
     /\ \A i \in 1..Len(written) :
           LET f == ColumnsOf[output_file[i + 1]]
               e == written[i].event
           IN /\ Len(f) = 14
              /\ f[12] = Replace(e.name, ",", ";")
              /\ e.name = <<"Foo", ",", " Bar">> =>
                    f[12] = <<"Foo", ";", " Bar">>

(* ---------------------- properties: retry budget ----------------------- *)

\* The requests issued for one page: same category, time-status and offset.
RequestsLike(r) == SelectSeq(reqLog, LAMBDA q : q = r)

\* The outcomes that leave an attempt without a page.
FailedOutcomes == {"500", "malformed", "conn"}

\* C13: no page is requested more than num_request_attempts times, whatever
\* the outcomes of the attempts; every attempt is counted by the one
\* counter; after a failed attempt (HTTP 500, body that is not JSON,
\* connection failure) the process goes on to another attempt while fewer
\* than num_request_attempts were made, and ends once they were.
C13_AttemptsWithinBudget ==
  /\ \A k \in 1..Len(reqLog) :
        Len(RequestsLike(reqLog[k])) <= num_request_attempts
  /\ Len(pageOutcomes) <= num_request_attempts
  /\ TrailingRepeats(reqLog) <= num_request_attempts
  /\ (pageOutcomes # <<>> /\ pageOutcomes[Len(pageOutcomes)] \in FailedOutcomes)
        => /\ retry = Len(pageOutcomes)
           /\ TrailingRepeats(reqLog) = Len(pageOutcomes)
           /\ Len(pageOutcomes) < num_request_attempts => pc = "fetch"
           /\ Len(pageOutcomes) = num_request_attempts => pc = "exit"

\* A page whose three attempts failed in the three ways, the body that is
\* not JSON being followed by another attempt.
C13_Witness ==
  /\ pageOutcomes = <<"500", "malformed", "conn">>
  /\ TrailingRepeats(reqLog) = 3
  /\ pc = "exit"

(* ---------------------- properties: fatal errors ----------------------- *)

\* The process ended in error after the file was opened, that is, while
\* events were being fetched.
FatalWhileFetching == pc = "exit" /\ fileOpened

\* C14 (as claimed): when the process has ended in error while fetching
\* events, the file is the header followed by the rows of the pages
\* processed before the failing request, all of them and in order, and
\* nothing else: the answer to the failing request is not among the
\* processed pages and none of its rows is in the file.
C14_NoRowOfTheFailedPage ==
  FatalWhileFetching =>
    /\ output_file = <<HeaderRow>> \o ExpectedLines(accepted)
    /\ Len(output_file) = 1 + EventCount(accepted)
    /\ \A i \in 1..Len(accepted) : accepted[i].reqIdx < Len(reqLog)
    /\ ~LastRequestAccepted

\* C14 (amended): when the process has ended in error while fetching
\* events, the file holds the header followed by the rows of the pages
\* processed before the failing request, all of them and in order; when
\* the error is the exit of the retry loop (line 105) nothing else is in
\* the file: no row of the answer to the failing request is written; when
\* it is a ValueError raised while the row of an event of the answer was
\* built, the rows of the events before that event in the answer follow,
\* and no row for that event or for those after it.
C14_FileKeepsAcceptedRowsOnly ==
  FatalWhileFetching =>
    /\ SubSeq(output_file, 1, 1 + EventCount(accepted))
          = <<HeaderRow>> \o ExpectedLines(accepted)
    /\ \A i \in 1..Len(accepted) : accepted[i].reqIdx < Len(reqLog)
    /\ ~LastRequestAccepted
    /\ ~abandoned.valid => Len(output_file) = 1 + EventCount(accepted)
    /\ exitKind = "exit" => ~abandoned.valid
    /\ abandoned.valid =>
          /\ exitKind = "traceback"
          /\ pageOutcomes[Len(pageOutcomes)] = "ok"
          /\ abandoned.reqIdx = Len(reqLog)
          /\ abandoned.written + 1 =
                FirstRaising(abandoned.category, data.results,
                             abandoned.status, abandoned.today, zone)
          /\ abandoned.written < Len(data.results)
          /\ SubSeq(output_file, 2 + EventCount(accepted), Len(output_file))
                = PageLines(abandoned.category,
                            SubSeq(data.results, 1, abandoned.written),
                            abandoned.status, abandoned.today, zone)

\* A page with events was processed to its end; the answer to the next
\* request held two events, and the process died on the second after the
\* row of the first was written.
C14_Witness ==
  /\ FatalWhileFetching
  /\ EventCount(accepted) >= 1
  /\ abandoned.valid
  /\ abandoned.written = 1
  /\ Len(output_file) = 2 + EventCount(accepted)

(* ------------------- properties: failed attempts ----------------------- *)

\* This step issues an events request.
IssuesRequest ==
  /\ Len(reqLog') = Len(reqLog) + 1
  /\ reqLog'[Len(reqLog')].endpoint = "events"

\* This step is an attempt that fails by HTTP 500, by a body that is not
\* JSON or below HTTP.
FailedAttempt ==
  /\ IssuesRequest
  /\ pageOutcomes'[Len(pageOutcomes')] \in FailedOutcomes

\* This step is the attempt that follows such a failed attempt.
RetryAfterFailure ==
  /\ IssuesRequest
  /\ retry > 0
  /\ pageOutcomes # <<>>
  /\ pageOutcomes[Len(pageOutcomes)] \in FailedOutcomes

\* C15: a failed attempt changes neither the offset, the downloaded
\* counter, the expected total, the file nor the pair being fetched; the
\* attempt that follows it repeats its request: same category, same
\* time-status, same offset.
C15_FailedAttemptChangesNothing ==
  [][ /\ FailedAttempt =>
           UNCHANGED <<offset, downloaded, total, output_file, catIdx,
                       statusIdx>>
      /\ RetryAfterFailure => reqLog'[Len(reqLog')] = reqLog[Len(reqLog)]
    ]_vars

\* After a processed page of one event out of two, the next page failed by
\* a body that is not JSON and then by a connection failure.
C15_Witness ==
  /\ pc = "fetch"
  /\ Len(accepted) = 1
  /\ offset = 1
  /\ downloaded = 1
  /\ total = 2
  /\ Len(output_file) = 2
  /\ pageOutcomes = <<"malformed", "conn">>
  /\ reqLog[Len(reqLog)] = reqLog[Len(reqLog) - 1]

(* ------------------- properties: processed pages ----------------------- *)

\* C16: every processed page is the answer to one request of the pair and
\* offset it was processed under, that answer had status 200 and a JSON
\* body with meta and results, and the count and events processed are
\* those of that body; no answer is processed twice, and pages are
\* processed in the order of their requests.
C16_ProcessedPageIsFreshAnswer ==
  \A i \in 1..Len(accepted) :
    LET a == accepted[i]
        q == reqLog[a.reqIdx]
    IN /\ q.endpoint = "events"
       /\ q.category = a.category.id
       /\ q.status = a.status
       /\ q.offset = a.offset
       /\ a.http = 200
       /\ a.answer.wellFormed
       /\ a.answer.results = a.results
       /\ a.answer.count = a.count
       /\ \A j \in 1..(i - 1) : accepted[j].reqIdx < a.reqIdx

\* A page of another time-status was processed after a failed attempt,
\* while the events of the pair before were still bound to `data`.
C16_Witness ==
  /\ Len(accepted) = 2
  /\ accepted[1].results # <<>>
  /\ accepted[2].results # accepted[1].results
  /\ accepted[2].status # accepted[1].status
  /\ accepted[2].reqIdx = accepted[1].reqIdx + 2

(* ------------------------ properties: termination ---------------------- *)

\* C17 (as claimed): every run in which each request returns ends, by
\* DONE! or by a fatal exit.
C17_EveryRunTerminates == <>Terminated

(* ---------------------- properties: first page ------------------------- *)

\* Rank in loop order of the pair the loops are at.
CurrentPairNo == (catIdx - 1) * Len(EventStatuses) + statusIdx

\* The requests issued for the pair of rank r.
RequestsOfPair(r) ==
  {k \in 2..Len(reqLog) : ReqPairNo(k) = r}

\* The pair the loops are at has had a request.
CurrentPairRequested == pc # "fetch" \/ retry > 0 \/ offset > 0

\* C18: a pair starts with downloaded 0 < total 1, so its request for
\* offset 0 is due; every pair reached before the current one, and the
\* current one once an attempt was made, has a request for offset 0, also a
\* pair for which the server holds no events; when the page accepted for
\* offset 0 reports a count that reaches its total_count (0 included), the
\* pair is left with that one page processed and only offset 0 requested,
\* and no request for the pair follows.
C18_FirstPageAlwaysRequested ==
  /\ (pc = "fetch" /\ offset = 0) => (downloaded = 0 /\ total = 1)
  /\ (fileOpened /\ categories # <<>>) =>
        \A r \in 1..CurrentPairNo :
          (r < CurrentPairNo \/ CurrentPairRequested) =>
            \E k \in RequestsOfPair(r) : reqLog[k].offset = 0
  /\ \A k \in 3..Len(reqLog) : ReqPairNo(k - 1) <= ReqPairNo(k)
  /\ (/\ LastRequestAccepted
      /\ accepted[Len(accepted)].offset = 0
      /\ data.meta.count >= data.meta.total_count) =>
        LET a == accepted[Len(accepted)]
            r == PairNo(a.category.id, a.status)
        IN /\ lastPairEnd.valid
           /\ lastPairEnd.category = a.category.id
           /\ lastPairEnd.status = a.status
           /\ Len(PairPages(a.category.id, a.status)) = 1
           /\ \A k \in RequestsOfPair(r) : reqLog[k].offset = 0
           /\ pc = "fetch" => CurrentPairNo = r + 1
  /\ (/\ lastPairEnd.valid
      /\ Len(PairPages(lastPairEnd.category, lastPairEnd.status)) = 1) =>
        LET pages == PairPages(lastPairEnd.category, lastPairEnd.status)
            r == PairNo(lastPairEnd.category, lastPairEnd.status)
        IN /\ \A k \in RequestsOfPair(r) :
                 reqLog[k].offset = 0 /\ k <= pages[1].reqIdx
           /\ pages[1].reqIdx \in RequestsOfPair(r)

\* The first pair, for which the server reported no events at all, took
\* one request; the pair after it has had its request for offset 0.
C18_Witness ==
  /\ Len(reqLog) = 3
  /\ Len(accepted) = 1
  /\ accepted[1].reqIdx = 2
  /\ accepted[1].results = <<>>
  /\ lastPairEnd.valid
  /\ lastPairEnd.total = 0
  /\ lastPairEnd.downloaded = 0
  /\ reqLog[2].offset = 0
  /\ reqLog[3].offset = 0
  /\ reqLog[3].status # reqLog[2].status

====
